---- MODULE Spec2Model ----
(***************************************************************************)
(* The order repository of chi-api (repository/order, RedisRepo) as a      *)
(* state machine over a Redis-like store: the primary records              *)
(* `order:<id>` and the index set `orders`.  Every store call of an        *)
(* operation is one atomic step; the local computation around it belongs   *)
(* to the step.  Workers are concurrent request handlers calling the       *)
(* repository.                                                             *)
(***************************************************************************)
EXTENDS Integers, Sequences, FiniteSets, TLC

\* ---------------------------------------------------------------- bounds
MaxOrderID == 2
NumBodies == 2
NumSlots == 3
MaxSize == 2

OrderIDs == 1..MaxOrderID
Bodies == 1..NumBodies
\* Two request handlers run at a time.
Workers == {1, 2}
Cursors == 0..(NumSlots - 1)
Sizes == 1..MaxSize

\* model.Order: OrderID plus the rest of the entity (CustomerID, LineItems,
\* CreatedAt), which the repository treats as an opaque body.
Orders == [OrderID : OrderIDs, Body : Bodies]

\* ------------------------------------------------------ codec and keys
\* fmt.Sprintf("order:%d", id)
OrderIdKey(id) == <<"order", id>>

Keys == {OrderIdKey(i) : i \in OrderIDs}

KeyID(k) == k[2]

\* json.Marshal(order): the fields in declaration order.
Marshal(o) == <<o.OrderID, o.Body>>

\* json.Unmarshal(value, &order)
Unmarshal(s) == [OrderID |-> s[1], Body |-> s[2]]

\* The store's "no such key" value (a nil bulk reply).
Nil == <<>>

\* Error values a repository call returns.
ErrNone == "nil"
ErrNotExits == "order does not exists"
ErrStore == "store error"

NoRet == [op |-> "none", err |-> ErrNone, orders |-> <<>>, cursor |-> 0]

\* No order: the zero model.Order.
NoOrder == [OrderID |-> 0, Body |-> 0]

\* Status codes Order.Create answers with.  The success path calls w.Write
\* before w.WriteHeader(http.StatusCreated), so the response has already
\* gone out with the implicit 200 and the later WriteHeader is ignored.
StatusBadRequest == 400
StatusInternalServerError == 500
StatusOK == 200

\* No request is being served.
NoRequest == [stage |-> "none", decoded |-> FALSE, status |-> 0]

VARIABLES
    kv,        \* primary records: key -> serialized order, or Nil
    orders,    \* the index set `orders`: a set of keys
    pc,        \* per worker: where in which operation it is
    key,       \* per worker: the local `key`
    res,       \* per worker: the reply of the call's first command, which the
               \* code does not read (SetNX: it set; Del: it removed a key)
    keys,      \* per worker: FindAll's `keys`, the scan's members
    cursor,    \* per worker: FindAll's `cursor`, the scan's next cursor
    ret,       \* per worker: what the call returned (read at pc = "ret")
    inserted,  \* history: ids whose last Insert returned nil, no DeleteByID since
    deleted,   \* history: ids whose last DeleteByID returned nil, no Insert since
    pgState,   \* the paging caller: "off", "call", "wait", "done"
    pgNext,    \* the paging caller: the Offset of its next FindAll
    pgSeen,    \* the paging caller: ids of the orders returned so far
    written,   \* history: per id, the order last written and not deleted since
    http       \* per worker: the POST /orders request it serves, if any

store == <<kv, orders>>
locals == <<key, res, keys, cursor>>
hist == <<inserted, deleted, written>>
pager == <<pgState, pgNext, pgSeen>>
vars == <<kv, orders, pc, key, res, keys, cursor, ret, inserted, deleted,
          pgState, pgNext, pgSeen, written, http>>

Init ==
    /\ kv = [k \in Keys |-> Nil]
    /\ orders = {}
    /\ pc = [w \in Workers |-> "idle"]
    /\ key = [w \in Workers |-> Nil]
    /\ res = [w \in Workers |-> FALSE]
    /\ keys = [w \in Workers |-> <<>>]
    /\ cursor = [w \in Workers |-> 0]
    /\ ret = [w \in Workers |-> NoRet]
    /\ inserted = {}
    /\ deleted = {}
    /\ pgState = "off"
    /\ pgNext = 0
    /\ pgSeen = <<>>
    /\ written = [id \in OrderIDs |-> NoOrder]
    /\ http = [w \in Workers |-> NoRequest]


\* ------------------------------------------------- the store's commands
\* What each command of the store does to the data; the reply is taken
\* where the command is issued.

\* A plain SET in place of SETNX: the write lands on an existing key too.
SetNXOverwrites(k, v) == [kv EXCEPT ![k] = v]

\* SETNX key value: writes only when the key is absent.
SetNX(k, v) == IF kv[k] = Nil THEN [kv EXCEPT ![k] = v] ELSE kv

\* The value of a present key is not replaced.
SetXXSkipped(k, v) == kv

\* The write is not confined to the key: every present record is replaced.
SetXXEveryKey(k, v) == [x \in Keys |-> IF kv[x] # Nil THEN v ELSE kv[x]]

\* SET key value XX: writes only when the key is present.
SetXX(k, v) == IF kv[k] # Nil THEN [kv EXCEPT ![k] = v] ELSE kv

\* The primary record is left in place.
DelSkipped(k) == kv

\* DEL key
Del(k) == [kv EXCEPT ![k] = Nil]

\* The key is not added to the index.
SAddSkipped(k) == orders

\* SADD orders key
SAdd(k) == orders \cup {k}

\* The index entry is left in place.
SRemSkipped(k) == orders

\* SREM orders key
SRem(k) == orders \ {k}

\* SSCAN orders cursor MATCH * COUNT count.  The set is a hash table of
\* NumSlots buckets and the cursor is a bucket position; one call walks a
\* run of buckets from the cursor and replies with their members and the
\* position to go on from (0 once the table is exhausted).
SlotOf(k) == KeyID(k) % NumSlots

ScanOrder ==
    CHOOSE s \in [1..Cardinality(Keys) -> Keys] :
        /\ \A i, j \in DOMAIN s : i # j => s[i] # s[j]
        /\ \A i, j \in DOMAIN s :
            i < j => \/ SlotOf(s[i]) < SlotOf(s[j])
                     \/ SlotOf(s[i]) = SlotOf(s[j]) /\ KeyID(s[i]) < KeyID(s[j])

InSlots(k, c, n) == k \in orders /\ SlotOf(k) >= c /\ SlotOf(k) < c + n

ScanKeys(c, n) == SelectSeq(ScanOrder, LAMBDA k : InSlots(k, c, n))

\* How many buckets a call may walk: it goes on while it holds fewer than
\* `count` members but may stop at any bucket (its iteration budget), and a
\* compactly encoded set is returned whole from cursor 0 whatever the count.
ScanSteps(c, count) ==
    {n \in 1..(NumSlots - c) :
        \/ c = 0 /\ n = NumSlots
        \/ Len(ScanKeys(c, n - 1)) < count}

ScanNext(c, n) == IF c + n >= NumSlots THEN 0 ELSE c + n

\* MGET keys...: one value per key, Nil where the key is absent.
MGet(ks) == [i \in DOMAIN ks |-> kv[ks[i]]]

\* ------------------------------------------------------------ helpers
StoreErrs == {ErrNone, ErrStore}

Result(o, e) == [op |-> o, err |-> e, orders |-> <<>>, cursor |-> 0]

\* The call of worker w ends with return value r: its locals are dead.
Finish(w, r) ==
    /\ pc' = [pc EXCEPT ![w] = "ret"]
    /\ ret' = [ret EXCEPT ![w] = r]

\* A panic unwinds the call: nothing is returned.
Panic(w) ==
    /\ pc' = [pc EXCEPT ![w] = "panicked"]
    /\ ret' = [ret EXCEPT ![w] = NoRet]

Goto(w, l) ==
    /\ pc' = [pc EXCEPT ![w] = l]
    /\ UNCHANGED ret

\* ------------------------------------------------------------- Insert
\* The index add is issued before SetNX's error is looked at.
InsertCallAddsOnError(w, o, e) ==
    /\ pc[w] = "idle"
    /\ LET data == Marshal(o)
           k == OrderIdKey(o.OrderID)
       IN  /\ key' = [key EXCEPT ![w] = k]
           /\ deleted' = deleted \ {o.OrderID}
           /\ IF e # ErrNone
              THEN /\ orders' = SAdd(k)
                   /\ Finish(w, Result("Insert", ErrStore))
                   /\ UNCHANGED <<kv, res, written>>
              ELSE /\ kv' = SetNX(k, data)
                   /\ res' = [res EXCEPT ![w] = (kv[k] = Nil)]
                   /\ written' = IF written[o.OrderID] = NoOrder
                                 THEN [written EXCEPT ![o.OrderID] = o]
                                 ELSE written
                   /\ Goto(w, "ins_sadd")
                   /\ UNCHANGED orders
    /\ UNCHANGED <<keys, cursor, inserted, pager>>

\* Lines 41-56: marshal, derive the key, open the (never used) pipeline,
\* SetNX on the client itself.  Only res.Err() is read: the reply's value
\* (whether the key was set) is ignored.
InsertCall(w, o, e) ==
    /\ pc[w] = "idle"
    /\ LET data == Marshal(o)
           k == OrderIdKey(o.OrderID)
       IN  /\ key' = [key EXCEPT ![w] = k]
           /\ deleted' = deleted \ {o.OrderID}
           /\ IF e # ErrNone
              THEN /\ Finish(w, Result("Insert", ErrStore))
                   /\ UNCHANGED <<kv, res, written>>
              ELSE /\ kv' = SetNX(k, data)
                   /\ res' = [res EXCEPT ![w] = (kv[k] = Nil)]
                   /\ written' = IF written[o.OrderID] = NoOrder
                                 THEN [written EXCEPT ![o.OrderID] = o]
                                 ELSE written
                   /\ Goto(w, "ins_sadd")
    /\ UNCHANGED <<orders, keys, cursor, inserted, pager>>

InsertSetNX(w, o, e) ==
    /\ http[w].stage = "none"
    /\ InsertCall(w, o, e)
    /\ UNCHANGED http

\* Lines 58-67: SAdd on the client itself, then txn.Exec.  No command was
\* queued on txn, so Exec (and Discard) of the empty pipeline sends nothing
\* and returns nil.
InsertSAdd(w, e) ==
    /\ pc[w] = "ins_sadd"
    /\ IF e # ErrNone
       THEN /\ Finish(w, Result("Insert", ErrStore))
            /\ UNCHANGED <<orders, inserted>>
       ELSE /\ orders' = SAdd(key[w])
            /\ inserted' = inserted \cup {KeyID(key[w])}
            /\ Finish(w, Result("Insert", ErrNone))
    /\ UNCHANGED <<kv, locals, deleted, written, pager, http>>

\* ----------------------------------------------------------- FindByID
\* GETDEL in place of GET: the record is taken out as it is read.
FindByIDGetDel(w, id, e) ==
    /\ pc[w] = "idle"
    /\ LET k == OrderIdKey(id)
           value == kv[k]
       IN  /\ key' = [key EXCEPT ![w] = k]
           /\ kv' = IF e # ErrNone THEN kv ELSE Del(k)
           /\ IF e # ErrNone
              THEN Finish(w, Result("FindByID", ErrStore))
              ELSE IF value = Nil
              THEN Finish(w, Result("FindByID", ErrNotExits))
              ELSE Finish(w, [Result("FindByID", ErrNone)
                                EXCEPT !.orders = <<Unmarshal(value)>>])
    /\ UNCHANGED <<orders, res, keys, cursor, hist, pager, http>>

\* Lines 74-91: Get; redis.Nil is the reply of an absent key.
FindByID(w, id, e) ==
    /\ pc[w] = "idle"
    /\ LET k == OrderIdKey(id)
           value == kv[k]
       IN  /\ key' = [key EXCEPT ![w] = k]
           /\ IF e # ErrNone
              THEN Finish(w, Result("FindByID", ErrStore))
              ELSE IF value = Nil
              THEN Finish(w, Result("FindByID", ErrNotExits))
              ELSE Finish(w, [Result("FindByID", ErrNone)
                                EXCEPT !.orders = <<Unmarshal(value)>>])
    /\ UNCHANGED <<store, res, keys, cursor, hist, pager, http>>

\* --------------------------------------------------------- DeleteByID
\* Lines 95-106: Del on the client itself.  Del replies with the number of
\* keys removed and never with redis.Nil, so the ErrNotExits branch is not
\* taken for an absent key.
DeleteDel(w, id, e) ==
    /\ pc[w] = "idle"
    /\ LET k == OrderIdKey(id)
       IN  /\ key' = [key EXCEPT ![w] = k]
           /\ inserted' = inserted \ {id}
           /\ IF e # ErrNone
              THEN /\ Finish(w, Result("DeleteByID", ErrStore))
                   /\ UNCHANGED <<kv, res, written>>
              ELSE /\ kv' = Del(k)
                   /\ res' = [res EXCEPT ![w] = (kv[k] # Nil)]
                   /\ written' = [written EXCEPT ![id] = NoOrder]
                   /\ Goto(w, "del_srem")
    /\ UNCHANGED <<orders, keys, cursor, deleted, pager, http>>

\* Lines 108-114: SRem on the client itself, then Exec of the empty pipeline.
DeleteSRem(w, e) ==
    /\ pc[w] = "del_srem"
    /\ IF e # ErrNone
       THEN /\ Finish(w, Result("DeleteByID", ErrStore))
            /\ UNCHANGED <<orders, deleted>>
       ELSE /\ orders' = SRem(key[w])
            /\ deleted' = deleted \cup {KeyID(key[w])}
            /\ Finish(w, Result("DeleteByID", ErrNone))
    /\ UNCHANGED <<kv, locals, inserted, written, pager, http>>

\* ------------------------------------------------------------- Update
\* Lines 118-131: SetXX.  The nil reply of an absent key is turned into
\* the value false with a nil error by the client, so the ErrNotExits
\* branch is not taken.
Update(w, o, e) ==
    /\ pc[w] = "idle"
    /\ LET data == Marshal(o)
           k == OrderIdKey(o.OrderID)
       IN  /\ key' = [key EXCEPT ![w] = k]
           /\ IF e # ErrNone
              THEN /\ Finish(w, Result("Update", ErrStore))
                   /\ UNCHANGED <<kv, written>>
              ELSE /\ kv' = SetXX(k, data)
                   /\ written' = IF written[o.OrderID] # NoOrder
                                 THEN [written EXCEPT ![o.OrderID] = o]
                                 ELSE written
                   /\ Finish(w, Result("Update", ErrNone))
    /\ UNCHANGED <<orders, res, keys, cursor, inserted, deleted, pager, http>>

\* ------------------------------------------------------------ FindAll
\* The store's next cursor is handed on with the empty page.
EmptyPageKeepsCursor(next) == [Result("FindAll", ErrNone) EXCEPT !.cursor = next]

\* Lines 153-157: FindResults{Orders: []model.Order{}}, its Cursor left at
\* the zero value whatever next cursor the scan step replied.
EmptyPage(next) == Result("FindAll", ErrNone)

\* Lines 145-157: one SScan step; no keys: an empty list and the zero
\* cursor, whatever cursor the store replied.
SScanStep(w, page, e) ==
    /\ pc[w] = "idle"
    /\ IF e # ErrNone
       THEN /\ Finish(w, Result("FindAll", ErrStore))
            /\ UNCHANGED <<keys, cursor>>
       ELSE \E n \in ScanSteps(page.Offset, page.Size) :
            LET ks == ScanKeys(page.Offset, n)
            IN  /\ keys' = [keys EXCEPT ![w] = ks]
                /\ cursor' = [cursor EXCEPT ![w] = ScanNext(page.Offset, n)]
                /\ IF Len(ks) = 0
                   THEN Finish(w, EmptyPage(ScanNext(page.Offset, n)))
                   ELSE Goto(w, "fa_mget")
    /\ UNCHANGED <<store, key, res, hist>>

FindAllSScan(w, page, e) ==
    /\ pgState = "off"
    /\ SScanStep(w, page, e)
    /\ UNCHANGED <<pager, http>>

\* Lines 159-182: MGet, then decode each value.  x.(string) on the nil of
\* an absent key panics.
FindAllMGet(w, e) ==
    /\ pc[w] = "fa_mget"
    /\ LET xs == MGet(keys[w])
       IN  IF e # ErrNone
           THEN Finish(w, Result("FindAll", ErrStore))
           ELSE IF \E i \in DOMAIN xs : xs[i] = Nil
           THEN Panic(w)
           ELSE Finish(w, [Result("FindAll", ErrNone)
                             EXCEPT !.orders = [i \in DOMAIN xs |-> Unmarshal(xs[i])],
                                    !.cursor = cursor[w]])
    /\ UNCHANGED <<store, locals, hist, pager, http>>

\* The caller has taken the result (or the panic has unwound): the worker
\* is free for the next request.
Return(w) ==
    /\ pc[w] \in {"ret", "panicked"}
    /\ http[w].stage = "none"
    /\ pgState = "off"
    /\ pc' = [pc EXCEPT ![w] = "idle"]
    /\ key' = [key EXCEPT ![w] = Nil]
    /\ res' = [res EXCEPT ![w] = FALSE]
    /\ keys' = [keys EXCEPT ![w] = <<>>]
    /\ cursor' = [cursor EXCEPT ![w] = 0]
    /\ ret' = [ret EXCEPT ![w] = NoRet]
    /\ UNCHANGED <<store, hist, pager, http>>

\* ---------------------------------------------------- the paging caller
\* A caller that lists everything: FindAll from Offset 0, then from each
\* returned cursor, until the returned cursor is 0.
OrderIDsOf(os) == [i \in DOMAIN os |-> os[i].OrderID]

PageBegin ==
    /\ pgState = "off"
    /\ \A w \in Workers : pc[w] = "idle"
    /\ pgState' = "call"
    /\ pgNext' = 0
    /\ pgSeen' = <<>>
    /\ UNCHANGED <<store, pc, locals, ret, hist, http>>

PageCall(w, size) ==
    /\ pgState = "call"
    /\ SScanStep(w, [Size |-> size, Offset |-> pgNext], ErrNone)
    /\ pgState' = "wait"
    /\ UNCHANGED <<pgNext, pgSeen, http>>

PageCollect(w) ==
    /\ pgState = "wait"
    /\ pc[w] = "ret"
    /\ pgSeen' = pgSeen \o OrderIDsOf(ret[w].orders)
    /\ pgNext' = ret[w].cursor
    /\ pgState' = IF ret[w].cursor = 0 THEN "done" ELSE "call"
    /\ pc' = [pc EXCEPT ![w] = "idle"]
    /\ key' = [key EXCEPT ![w] = Nil]
    /\ res' = [res EXCEPT ![w] = FALSE]
    /\ keys' = [keys EXCEPT ![w] = <<>>]
    /\ cursor' = [cursor EXCEPT ![w] = 0]
    /\ ret' = [ret EXCEPT ![w] = NoRet]
    /\ UNCHANGED <<store, hist, http>>

PageEnd ==
    /\ pgState = "done"
    /\ pgState' = "off"
    /\ pgNext' = 0
    /\ pgSeen' = <<>>
    /\ UNCHANGED <<store, pc, locals, ret, hist, http>>

\* --------------------------------------------------------- specifications
Pages == [Size : Sizes, Offset : Cursors]

\* Workers call the repository concurrently and any store call may fail.
Next ==
    \E w \in Workers :
        \/ \E o \in Orders, e \in StoreErrs : InsertSetNX(w, o, e)
        \/ \E e \in StoreErrs : InsertSAdd(w, e)
        \/ \E id \in OrderIDs, e \in StoreErrs : FindByID(w, id, e)
        \/ \E id \in OrderIDs, e \in StoreErrs : DeleteDel(w, id, e)
        \/ \E e \in StoreErrs : DeleteSRem(w, e)
        \/ \E o \in Orders, e \in StoreErrs : Update(w, o, e)
        \/ \E page \in Pages, e \in StoreErrs : FindAllSScan(w, page, e)
        \/ \E e \in StoreErrs : FindAllMGet(w, e)
        \/ Return(w)

Spec == Init /\ [][Next]_vars

\* Concurrent writers (Insert, Update, DeleteByID) on a store that does
\* not fail.
NextWrite ==
    \E w \in Workers :
        \/ \E o \in Orders : InsertSetNX(w, o, ErrNone)
        \/ InsertSAdd(w, ErrNone)
        \/ \E id \in OrderIDs : DeleteDel(w, id, ErrNone)
        \/ DeleteSRem(w, ErrNone)
        \/ \E o \in Orders : Update(w, o, ErrNone)
        \/ Return(w)

WriteSpec == Init /\ [][NextWrite]_vars

\* No other worker is inside a call.
Quiet(w) == \A v \in Workers \ {w} : pc[v] = "idle"

\* One call at a time, each run to completion; store calls may fail.
NextFail ==
    \E w \in Workers :
        \/ Quiet(w) /\ \E o \in Orders, e \in StoreErrs : InsertSetNX(w, o, e)
        \/ Quiet(w) /\ \E e \in StoreErrs : InsertSAdd(w, e)
        \/ Quiet(w) /\ \E id \in OrderIDs, e \in StoreErrs : FindByID(w, id, e)
        \/ Quiet(w) /\ \E id \in OrderIDs, e \in StoreErrs : DeleteDel(w, id, e)
        \/ Quiet(w) /\ \E e \in StoreErrs : DeleteSRem(w, e)
        \/ Quiet(w) /\ \E o \in Orders, e \in StoreErrs : Update(w, o, e)
        \/ Quiet(w) /\ \E page \in Pages, e \in StoreErrs : FindAllSScan(w, page, e)
        \/ Quiet(w) /\ \E e \in StoreErrs : FindAllMGet(w, e)
        \/ Quiet(w) /\ Return(w)

FailSpec == Init /\ [][NextFail]_vars

\* One call at a time, each run to completion, and no store call fails;
\* a paging caller may list the whole index while nothing else runs.
Single(w) == Quiet(w) /\ pgState = "off"

NextSeq ==
    \/ \E w \in Workers :
        \/ Single(w) /\ \E o \in Orders : InsertSetNX(w, o, ErrNone)
        \/ Single(w) /\ InsertSAdd(w, ErrNone)
        \/ Single(w) /\ \E id \in OrderIDs : FindByID(w, id, ErrNone)
        \/ Single(w) /\ \E id \in OrderIDs : DeleteDel(w, id, ErrNone)
        \/ Single(w) /\ DeleteSRem(w, ErrNone)
        \/ Single(w) /\ \E o \in Orders : Update(w, o, ErrNone)
        \/ Single(w) /\ \E page \in Pages : FindAllSScan(w, page, ErrNone)
        \/ Quiet(w) /\ FindAllMGet(w, ErrNone)
        \/ Single(w) /\ Return(w)
        \/ Quiet(w) /\ \E size \in Sizes : PageCall(w, size)
        \/ Quiet(w) /\ PageCollect(w)
    \/ PageBegin
    \/ PageEnd

SeqSpec == Init /\ [][NextSeq]_vars

\* ------------------------------------------- the create endpoint
\* Order.Create, lines 21-40 of the handler: a body that does not decode is
\* answered 400 and nothing else happens; otherwise the order is built
\* (random OrderID) and Repo.Insert is called.
CreateDecode(w, ok, o, e) ==
    /\ http[w].stage = "none"
    /\ pc[w] = "idle"
    /\ IF ~ok
       THEN /\ http' = [http EXCEPT ![w] = [stage |-> "done", decoded |-> FALSE,
                                            status |-> StatusBadRequest]]
            /\ UNCHANGED <<store, pc, locals, ret, hist, pager>>
       ELSE /\ InsertCall(w, o, e)
            /\ http' = [http EXCEPT ![w] = [stage |-> "insert", decoded |-> TRUE,
                                            status |-> 0]]

\* Lines 40-54 of the handler: any error of Insert is answered 500; on
\* success the order is written out (w.Write sends the implicit 200).
CreateRespond(w) ==
    /\ http[w].stage = "insert"
    /\ pc[w] = "ret"
    /\ http' = [http EXCEPT ![w].stage = "done",
                            ![w].status = IF ret[w].err # ErrNone
                                          THEN StatusInternalServerError
                                          ELSE StatusOK]
    /\ UNCHANGED <<store, pc, locals, ret, hist, pager>>

\* The response is out: the worker is free for the next request.
CreateDone(w) ==
    /\ http[w].stage = "done"
    /\ http' = [http EXCEPT ![w] = NoRequest]
    /\ pc' = [pc EXCEPT ![w] = "idle"]
    /\ key' = [key EXCEPT ![w] = Nil]
    /\ res' = [res EXCEPT ![w] = FALSE]
    /\ keys' = [keys EXCEPT ![w] = <<>>]
    /\ cursor' = [cursor EXCEPT ![w] = 0]
    /\ ret' = [ret EXCEPT ![w] = NoRet]
    /\ UNCHANGED <<store, hist, pager>>

\* The HTTP service: concurrent POST /orders requests on a store whose
\* calls may fail.
NextHandler ==
    \E w \in Workers :
        \/ \E ok \in BOOLEAN, o \in Orders, e \in StoreErrs : CreateDecode(w, ok, o, e)
        \/ \E e \in StoreErrs : InsertSAdd(w, e)
        \/ CreateRespond(w)
        \/ CreateDone(w)

HandlerSpec == Init /\ [][NextHandler]_vars

\* ================================================================ claims
\* The error kind the specification names for a key collision; no code
\* path of the repository produces it.
ErrAlreadyExists == "already exists"

Returned(w, o) == pc[w] = "ret" /\ ret[w].op = o

\* Every call has run to completion.
AllReturned == \A w \in Workers : pc[w] \in {"idle", "ret"}

\* C1: an Insert whose primary key already exists (its SetNX set nothing)
\* returns the AlreadyExists error, not success.
C1_InsertExistingIsAlreadyExists ==
    \A w \in Workers :
        (Returned(w, "Insert") /\ ~res[w]) => ret[w].err = ErrAlreadyExists

\* A step of an Insert call by worker w.
InsertStep(w) ==
    \/ pc[w] = "idle" /\ pc'[w] = "ins_sadd"
    \/ pc[w] = "idle" /\ pc'[w] = "ret" /\ ret'[w].op = "Insert"
    \/ pc[w] = "ins_sadd" /\ pc'[w] = "ret"

\* C2: no step of any Insert, however the Inserts interleave, changes the
\* value of a primary record that exists.
C2_InsertKeepsExistingRecord ==
    [][\A w \in Workers :
          InsertStep(w) => \A k \in Keys : kv[k] # Nil => kv'[k] = kv[k]]_vars

\* Two Inserts of the same OrderID interleave: the first has set the
\* record, the second's SetNX found it, and neither has added to the index.
C2_Witness ==
    \E v, w \in Workers :
        /\ pc[v] = "ins_sadd" /\ pc[w] = "ins_sadd"
        /\ key[v] = key[w]
        /\ res[v] /\ ~res[w]
        /\ kv[key[w]] # Nil

\* C3: an Update whose primary key does not exist returns NotFound and
\* changes neither the primary records nor the index set.
C3_UpdateAbsentIsNotFound ==
    [][\A w \in Workers :
          (/\ pc[w] = "idle" /\ pc'[w] = "ret" /\ ret'[w].op = "Update"
           /\ kv[key'[w]] = Nil)
          => (ret'[w].err = ErrNotExits /\ kv' = kv /\ orders' = orders)]_vars

\* C4: a DeleteByID whose primary key does not exist (its Del removed
\* nothing) returns NotFound, and no step of it changes the primary
\* records or the index set.
C4_DeleteAbsentIsNotFound ==
    [][\A w \in Workers :
          /\ (pc[w] = "idle" /\ pc'[w] = "del_srem" /\ kv[key'[w]] = Nil)
                => (kv' = kv /\ orders' = orders)
          /\ (pc[w] = "del_srem" /\ pc'[w] = "ret" /\ ~res[w])
                => (ret'[w].err = ErrNotExits /\ kv' = kv /\ orders' = orders)]_vars

\* C5 (I1): once every call has run to completion, every member of the
\* index set is the key of an existing primary record.
C5_NoDanglingIndexEntry ==
    AllReturned => \A k \in orders : kv[k] # Nil

\* A DeleteByID has just removed a record while another order is indexed.
C5_Witness ==
    \E w \in Workers :
        /\ Returned(w, "DeleteByID") /\ res[w] /\ ret[w].err = ErrNone
        /\ orders # {}
        /\ \A k \in orders : kv[k] # Nil

\* How often id x occurs in the sequence of ids s.
Count(s, x) == Cardinality({i \in DOMAIN s : s[i] = x})

\* C6: when the paging caller has reached cursor 0 (nothing was written
\* meanwhile), the pages it collected hold every order of the index exactly
\* once and no other.
C6_PagingIsComplete ==
    pgState = "done" =>
        \A id \in OrderIDs :
            Count(pgSeen, id) = IF OrderIdKey(id) \in orders THEN 1 ELSE 0

\* C7: when the paging caller has reached cursor 0, its pages hold every
\* order whose Insert returned success with no DeleteByID of it since.
C7_InsertedIsListed ==
    pgState = "done" => \A id \in inserted : Count(pgSeen, id) >= 1

C9_MissingRecordIsAnError ==
    [][\A w \in Workers :
          (/\ pc[w] = "fa_mget" /\ pc'[w] # "fa_mget"
           /\ \E i \in DOMAIN keys[w] : kv[keys[w][i]] = Nil)
          => (pc'[w] = "ret" /\ ret'[w].op = "FindAll" /\ ret'[w].err # ErrNone)]_vars

\* C10: when Insert returns an error after its SetNX created the primary
\* record, the store holds no record for that key without its index entry.
C10_NoOrphanAfterFailedInsert ==
    \A w \in Workers :
        (Returned(w, "Insert") /\ res[w] /\ ret[w].err # ErrNone)
            => ~(kv[key[w]] # Nil /\ key[w] \notin orders)

\* C11: a cancelled context makes every later store call of the operation
\* fail.  An Insert or DeleteByID that returns an error has not issued its
\* index command (SAdd, SRem) with success, so "primary record and index both
\* changed or both untouched" means its first command (SetNX, Del) changed
\* no primary record either.
C11_CancelledLeavesNoPartialWrite ==
    \A w \in Workers :
        ((Returned(w, "Insert") \/ Returned(w, "DeleteByID"))
            /\ ret[w].err # ErrNone)
        => ~res[w]

\* C12: FindByID returns the order last written for its OrderID (by an
\* Insert on an absent key or by a later Update, whole), and NotFound when
\* none is written or it was deleted since.
C12_FindByIDReturnsLastWritten ==
    \A w \in Workers :
        Returned(w, "FindByID") =>
            LET id == KeyID(key[w])
            IN  IF written[id] = NoOrder
                THEN ret[w].err = ErrNotExits /\ ret[w].orders = <<>>
                ELSE ret[w].err = ErrNone /\ ret[w].orders = <<written[id]>>

\* FindByID has returned an order that Insert had reported stored.
C12_Witness ==
    \E w \in Workers :
        /\ Returned(w, "FindByID")
        /\ KeyID(key[w]) \in inserted
        /\ ret[w].err = ErrNone
        /\ ret[w].orders = <<written[KeyID(key[w])]>>

\* The step of an Update call by worker w (its one store call).
UpdateStep(w) == pc[w] = "idle" /\ pc'[w] = "ret" /\ ret'[w].op = "Update"

\* C13: an Update, whether it succeeds or fails, leaves the index set and
\* every primary record other than the one of its order's key as they were.
C13_UpdateTouchesOnlyItsRecord ==
    [][\A w \in Workers :
          UpdateStep(w) =>
              /\ orders' = orders
              /\ \A k \in Keys \ {key'[w]} : kv'[k] = kv[k]]_vars

\* An Update has replaced a record while another order is stored and
\* indexed.
C13_Witness ==
    \E w \in Workers :
        /\ Returned(w, "Update") /\ ret[w].err = ErrNone
        /\ kv[key[w]] # Nil
        /\ written[KeyID(key[w])] = Unmarshal(kv[key[w]])
        /\ \E k \in orders \ {key[w]} : kv[k] # Nil

\* C14: the response of POST /orders: 400 with no Insert for a body that
\* does not decode, 409 for an Insert that met an existing key (the
\* AlreadyExists case), 500 for an Insert that failed in the store.
C14_CreateStatusCodes ==
    \A w \in Workers :
        http[w].stage = "done" =>
            /\ ~http[w].decoded
                  => (http[w].status = StatusBadRequest /\ pc[w] = "idle")
            /\ (http[w].decoded /\ ret[w].err = ErrNone /\ ~res[w])
                  => http[w].status = 409
            /\ (http[w].decoded /\ ret[w].err = ErrStore)
                  => http[w].status = StatusInternalServerError

\* C15: once an Insert and a DeleteByID of the same OrderID that ran
\* concurrently have both returned, the key is in the index set exactly if
\* its primary record exists.
C15_InsertDeleteRaceSettles ==
    \A v, w \in Workers :
        (Returned(v, "Insert") /\ Returned(w, "DeleteByID") /\ key[v] = key[w])
            => (key[v] \in orders <=> kv[key[v]] # Nil)

\* C16: a FindAll whose scan step replied no keys returns success with an
\* empty order list and cursor 0, whatever next cursor the store replied,
\* and the multi-get is only ever issued with keys.
C16_EmptyScanStepReturnsCursorZero ==
    \A w \in Workers :
        /\ (Returned(w, "FindAll") /\ ret[w].err = ErrNone /\ keys[w] = <<>>)
              => (ret[w].orders = <<>> /\ ret[w].cursor = 0)
        /\ pc[w] = "fa_mget" => keys[w] # <<>>

\* The scan step replied no keys and a non-zero next cursor while the
\* index holds orders.
C16_Witness ==
    \E w \in Workers :
        /\ Returned(w, "FindAll") /\ ret[w].err = ErrNone
        /\ keys[w] = <<>>
        /\ cursor[w] # 0
        /\ orders # {}

\* C17: an Insert whose SetNX fails in the store returns an error straight
\* away (no SAdd is issued): the step leaves the index set and every primary
\* record as they were.
C17_FailedSetNXChangesNothing ==
    [][\A w \in Workers :
          (pc[w] = "idle" /\ pc'[w] = "ret" /\ ret'[w].op = "Insert")
          => (ret'[w].err # ErrNone /\ kv' = kv /\ orders' = orders)]_vars

\* An Insert has returned the error of its SetNX: nothing was set and its
\* key is neither stored nor indexed, while another order is.
C17_Witness ==
    \E w \in Workers :
        /\ Returned(w, "Insert") /\ ret[w].err = ErrStore
        /\ ~res[w]
        /\ kv[key[w]] = Nil /\ key[w] \notin orders
        /\ orders # {}

\* The set of keys that have a primary record.
StoredKeys == {k \in Keys : kv[k] # Nil}

\* C18: once every call has run to completion (one at a time, no store
\* failure), the index set is exactly the set of keys with a primary record.
C18_IndexEqualsStoredKeys ==
    AllReturned => orders = StoredKeys

\* An Insert has just created a second record and both are indexed.
C18_Witness ==
    \E w \in Workers :
        /\ Returned(w, "Insert") /\ res[w] /\ ret[w].err = ErrNone
        /\ Cardinality(StoredKeys) >= 2
        /\ orders = StoredKeys

\* A step of a FindByID or FindAll call by worker w.
ReadStep(w) ==
    \/ pc[w] = "idle" /\ pc'[w] = "fa_mget"
    \/ pc[w] = "idle" /\ pc'[w] = "ret" /\ ret'[w].op \in {"FindByID", "FindAll"}
    \/ pc[w] = "fa_mget" /\ pc'[w] # "fa_mget"

\* C19: no step of FindByID or FindAll, ending in success, error or panic,
\* changes a primary record or the index set.
C19_ReadsLeaveStoreUnchanged ==
    [][\A w \in Workers :
          ReadStep(w) => (kv' = kv /\ orders' = orders)]_vars

\* FindByID has returned a stored order and the store still holds it.
C19_Witness ==
    \E w \in Workers :
        /\ Returned(w, "FindByID") /\ ret[w].err = ErrNone
        /\ kv[key[w]] = Marshal(ret[w].orders[1])
        /\ key[w] \in orders

====
